---- MODULE Spec2Model ----
(***************************************************************************)
(* ubootwrite.py: upload of a payload into the RAM of a Meraki MR33 over   *)
(* the U-Boot serial console.  The model follows the call chain            *)
(* upload -> memwrite -> getprompt / writecommand, one action per blocking *)
(* serial call (ser.read / ser.write) together with the code that follows  *)
(* it up to the next serial call or return.                                *)
(*                                                                         *)
(* Text on the serial line is a sequence of one-character strings, payload *)
(* bytes are integers 0..255.  The device is the environment: what it      *)
(* answers to a write is chosen from small sets, and its answer travels in *)
(* pieces (wire) that arrive (line) at times the program does not control. *)
(***************************************************************************)
EXTENDS Integers, Sequences, FiniteSets, TLC

\* ------------------------------------------------------------------ bounds
MaxLen == 9          \* longest payload (bytes)
MaxAttempts == 2     \* memwrite invocations explored per run of upload

\* ------------------------------------------------------- program constants
DEBUG == FALSE
MAX_SIZE == 2 ^ 30
LINE_FEED == <<"\n">>
READ_MAX == 256
WORD == 4
MARKER == <<"m", "a", "c", "h", "i", "d", ":", " ", "8", "0", "1", "0", "0", "0", "1">>
INTERRUPT == <<"x", "y", "z", "z", "y">>
PROMPT_GT == <<">", " ">>
PROMPT_HASH == <<"#", " ">>
KERNEL_ERROR == <<"E", "R", "R", "O", "R", ":", " ", "c", "a", "n", "'", "t", " ", "g", "e", "t", " ", "k", "e", "r", "n", "e", "l", " ", "i", "m", "a", "g", "e", "!">>
SUCCESS_BANNER == <<"H", "e", "l", "l", "o", " ", "f", "r", "o", "m", " ", "M", "R", "3", "3", " ", "U", "-", "B", "O", "O", "T">>
MW == <<"m", "w", " ">>
BOOTM == <<"b", "o", "o", "t", "m", " ">>

\* ------------------------------------------------------------ sequences
Min(a, b) == IF a < b THEN a ELSE b

Take(s, n) == SubSeq(s, 1, Min(n, Len(s)))

Drop(s, n) == SubSeq(s, Min(n, Len(s)) + 1, Len(s))

\* bytes.endswith
EndsWith(s, suf) ==
    /\ Len(s) >= Len(suf)
    /\ SubSeq(s, Len(s) - Len(suf) + 1, Len(s)) = suf

\* the bytes "in" operator: needle occurs as a contiguous substring
Contains(hay, needle) ==
    \E i \in 0..(Len(hay) - Len(needle)) :
        SubSeq(hay, i + 1, i + Len(needle)) = needle

\* read_bytes[::-1]
Reverse(s) == [i \in 1..Len(s) |-> s[Len(s) + 1 - i]]

RECURSIVE Flatten(_)
Flatten(ss) == IF ss = <<>> THEN <<>> ELSE Head(ss) \o Flatten(Tail(ss))

\* ------------------------------------------------------------- encoding
\* while len(read_bytes) < 4: read_bytes = b'\x00' + read_bytes
RECURSIVE PadLeft(_)
PadLeft(s) == IF Len(s) < WORD THEN PadLeft(<<0>> \o s) ELSE s

\* struct.unpack(">L", read_bytes): the first byte is the most significant
RECURSIVE Unpack(_)
Unpack(s) == IF s = <<>> THEN 0 ELSE Unpack(SubSeq(s, 1, Len(s) - 1)) * 256 + s[Len(s)]

\* the chunk is not reversed
EncodeChunkNoReverse(chunk) == Unpack(PadLeft(chunk))

\* the value memwrite computes from the chunk as read from the file
EncodeChunk(chunk) == Unpack(PadLeft(Reverse(chunk)))

HexDigit(d) == <<"0", "1", "2", "3", "4", "5", "6", "7", "8", "9", "a", "b", "c", "d", "e", "f">>[d + 1]

RECURSIVE HexDigits(_)
HexDigits(n) == IF n < 16 THEN <<HexDigit(n)>> ELSE HexDigits(n \div 16) \o <<HexDigit(n % 16)>>

RECURSIVE ZeroFill(_, _)
ZeroFill(s, w) == IF Len(s) < w THEN ZeroFill(<<"0">> \o s, w) ELSE s

\* the format specification 08x: lower-case hex, zero-filled to at least 8 digits
Hex8(n) == ZeroFill(HexDigits(n), 8)

\* f"mw {addr:08x} {val:08x}"
MwCommand(a, v) == MW \o Hex8(a) \o <<" ">> \o Hex8(v)

\* f"bootm {start_addr:08x}"
BootmCommand(a) == BOOTM \o Hex8(a)

\* the address is not advanced
NextAddrStuck(a) == a

\* addr += 4
NextAddr(a) == a + WORD

\* only the length of the echo is compared
EchoOkLength(b, c) == Len(b) = Len(c)

\* if buf != command.encode(): return False
EchoOk(b, c) == b = c

\* buf.endswith(b"> ") or buf.endswith(b"# ")
IsPrompt(b) == EndsWith(b, PROMPT_GT) \/ EndsWith(b, PROMPT_HASH)

\* only the two bytes of the suffix are returned
GetpromptResultSuffix(b) == SubSeq(b, Len(b) - 1, Len(b))

\* the value getprompt returns for the chunk that ended with a prompt suffix
GetpromptResult(b) == b

\* ---------------------------------------------------------------- inputs
PayloadA(n) == [i \in 1..n |-> i % 256]

\* 12 ef ab 34: bytes above 0x7f, in a word that fits TLC's 32-bit signed integers
\* whichever end is taken as the most significant
PayloadB(n) == SubSeq(<<18, 239, 171, 52>>, 1, n)

\* --size: 0 (take the size of the file), two sizes less than most payloads, one more than any
SizeArgs == {0, 3, 6, MaxLen + 3}

Paths == {"file", "-"}

\* <<payload, --size, --addr>>, --addr being 0x1000 or 0x7c00fff8 (TLC integers
\* are 32-bit signed: the default 0x82000000 does not fit)
Inputs ==
    ({PayloadA(n) : n \in 0..MaxLen} \X SizeArgs \X {4096})
    \cup ({PayloadB(n) : n \in 3..4} \X {0} \X {2080440312})

\* ------------------------------------------------ the device (environment)
\* the device's output t leaves whole, in two pieces or in three
Split2(t) == <<SubSeq(t, 1, Len(t) \div 2), SubSeq(t, Len(t) \div 2 + 1, Len(t))>>

Split3(t) ==
    <<SubSeq(t, 1, Len(t) \div 3),
      SubSeq(t, Len(t) \div 3 + 1, 2 * (Len(t) \div 3)),
      SubSeq(t, 2 * (Len(t) \div 3) + 1, Len(t))>>

Splits(t) == {<<t>>, Split2(t), Split3(t)}

\* boot output: with and without the boot-stage marker
BootPieces == Splits(MARKER) \cup {<<<<"U", "-", "B", "o", "o", "t">>>>}

\* the console's answer to a line feed: the echoed line feed and the prompt
DEV_GT == <<"\n">> \o PROMPT_GT
DEV_HASH == <<"\n">> \o PROMPT_HASH
DevPrompts == {DEV_GT, DEV_HASH}

XyzzyPieces == {<<>>, <<DEV_GT>>}

LfPieces == {<<DEV_GT>>, <<DEV_HASH>>, <<<<"\n">>, PROMPT_GT>>}

\* an echo with its last character damaged
Garble(c) == SubSeq(c, 1, Len(c) - 1) \o <<"?">>

\* answers to a command: echo and prompt in one piece or two, or a damaged echo
CmdPieces(c) ==
    {<<c \o p>> : p \in DevPrompts} \cup {<<c, DEV_GT>>, <<Garble(c) \o DEV_GT>>}

\* what the target prints after bootm: nothing, the banner, the error, or both
BootOutcomes ==
    {<<>>}
    \cup Splits(SUCCESS_BANNER)
    \cup Splits(KERNEL_ERROR)
    \cup {s \o <<SUCCESS_BANNER>> : s \in Splits(KERNEL_ERROR)}
    \cup {<<KERNEL_ERROR \o <<"\n">> \o SUCCESS_BANNER>>, <<SUCCESS_BANNER, KERNEL_ERROR>>}

BOOT_NOISE == <<"\n", "#", "#", " ">>

BootmPieces(c) == {<<c \o BOOT_NOISE>> \o o : o \in BootOutcomes}

\* ------------------------------------------------------------------ state
VARIABLES
    path, payload, size_arg, start_addr, shell,   \* arguments of upload
    pc, attempt, exc,                              \* control position, memwrite calls, exception
    line, wire, sent,                              \* serial: arrived, in flight, written
    rx,                                            \* read by the marker wait since power-on, or by upload
    buf, oldbuf, prompt, prompt_bound,             \* getprompt / upload locals, memwrite's prompt
    size, addr, bytes_read, read_bytes, val,       \* memwrite locals
    fd_pos, fd_closed, ret,
    command, wc_kind, wc_echo, wc_reads, wc_result   \* writecommand

args == <<path, payload, size_arg, start_addr, shell>>
ctl == <<pc, attempt, exc>>
serial == <<line, wire, sent, rx>>
gp == <<buf, oldbuf, prompt, prompt_bound>>
mw == <<size, addr, bytes_read, read_bytes, val, fd_pos, fd_closed, ret>>
wc == <<command, wc_kind, wc_echo, wc_reads, wc_result>>
vars == <<args, ctl, serial, gp, mw, wc>>

Init ==
    /\ path \in Paths
    /\ \E i \in Inputs : payload = i[1] /\ size_arg = i[2] /\ start_addr = i[3]
    /\ shell \in BOOLEAN
    /\ pc = "upload" /\ attempt = 0 /\ exc = "none"
    /\ line = <<>> /\ wire = <<>> /\ sent = <<>> /\ rx = <<>>
    /\ buf = <<>> /\ oldbuf = <<>> /\ prompt = <<>> /\ prompt_bound = FALSE
    /\ size = 0 /\ addr = 0 /\ bytes_read = 0 /\ read_bytes = <<>> /\ val = 0
    /\ fd_pos = 0 /\ fd_closed = FALSE /\ ret = FALSE
    /\ command = <<>> /\ wc_kind = "none" /\ wc_echo = <<>>
    /\ wc_reads = 0 /\ wc_result = FALSE

\* an uncaught exception ends the process
Raise(e) == pc' = "crashed" /\ exc' = e /\ attempt' = attempt

\* -------------------------------------------------------------- transport
\* a piece of the device's output reaches the host's receive buffer
Arrive ==
    /\ pc \notin {"returned", "crashed"}
    /\ wire # <<>>
    /\ line' = line \o Head(wire)
    /\ wire' = Tail(wire)
    /\ UNCHANGED <<args, ctl, sent, rx, gp, mw, wc>>

\* the operator powers the device on while getprompt waits for the marker:
\* the boot output starts afresh
DevBoot ==
    /\ pc = "gp_wait"
    /\ wire = <<>> /\ line = <<>>
    /\ \E log \in BootPieces : wire' = log
    /\ rx' = <<>>
    /\ UNCHANGED <<args, ctl, line, sent, gp, mw, wc>>

\* ---------------------------------------------------------------- upload
\* upload: the top of while True, the call of memwrite up to its first serial call
UploadCall ==
    /\ pc = "upload"
    /\ attempt < MaxAttempts
    /\ attempt' = attempt + 1
    /\ sent' = <<>> /\ rx' = <<>>
    /\ buf' = <<>> /\ oldbuf' = <<>>
    /\ pc' = IF ~DEBUG /\ ~shell THEN "gp_wait" ELSE "mw_open"
    /\ UNCHANGED <<args, exc, line, wire, prompt, prompt_bound, mw, wc>>

\* -------------------------------------------------------------- getprompt
\* the marker loop: one read, the test, and on a match the interrupt token
GetpromptMarker ==
    /\ pc = "gp_wait"
    /\ oldbuf' = buf
    /\ buf' = Take(line, READ_MAX)
    /\ line' = Drop(line, READ_MAX)
    /\ IF Contains(oldbuf' \o buf', MARKER)
       THEN /\ sent' = Append(sent, INTERRUPT)
            /\ \E answer \in XyzzyPieces : wire' = wire \o answer
            /\ pc' = "gp_drain"
            /\ rx' = <<>>
       ELSE /\ pc' = pc
            /\ rx' = rx \o buf'
            /\ UNCHANGED <<sent, wire>>
    /\ UNCHANGED <<args, attempt, exc, prompt, prompt_bound, mw, wc>>

\* the drain stops after the first read, empty or not
GetpromptDrainOnce ==
    /\ pc = "gp_drain"
    /\ line' = Drop(line, READ_MAX)
    /\ pc' = "gp_lf"
    /\ UNCHANGED <<args, attempt, exc, wire, sent, rx, gp, mw, wc>>

\* while ser.read(256): pass
GetpromptDrain ==
    /\ pc = "gp_drain"
    /\ line' = Drop(line, READ_MAX)
    /\ pc' = IF Take(line, READ_MAX) = <<>> THEN "gp_lf" ELSE "gp_drain"
    /\ UNCHANGED <<args, attempt, exc, wire, sent, rx, gp, mw, wc>>

\* ser.write(LINE_FEED.encode())
GetpromptLineFeed ==
    /\ pc = "gp_lf"
    /\ sent' = Append(sent, LINE_FEED)
    /\ \E answer \in LfPieces : wire' = wire \o answer
    /\ pc' = "gp_read"
    /\ UNCHANGED <<args, attempt, exc, line, rx, gp, mw, wc>>

\* the first read after the line feed; a chunk ending with a prompt is returned
GetpromptRead ==
    /\ pc = "gp_read"
    /\ buf' = Take(line, READ_MAX)
    /\ line' = Drop(line, READ_MAX)
    /\ IF IsPrompt(buf')
       THEN /\ prompt' = GetpromptResult(buf')
            /\ prompt_bound' = TRUE
            /\ oldbuf' = <<>>
            /\ pc' = "mw_open"
       ELSE /\ pc' = "gp_flush"
            /\ UNCHANGED <<prompt, prompt_bound, oldbuf>>
    /\ UNCHANGED <<args, attempt, exc, wire, sent, rx, mw, wc>>

\* the inner while True of the else branch: it has no break and no return
GetpromptFlush ==
    /\ pc = "gp_flush"
    /\ buf' = Take(line, READ_MAX)
    /\ line' = Drop(line, READ_MAX)
    /\ pc' = "gp_flush"
    /\ UNCHANGED <<args, attempt, exc, wire, sent, rx, oldbuf, prompt, prompt_bound, mw, wc>>

\* --------------------------------------------------------------- memwrite
\* the byte source and its size (lines 135-150)
MemwriteOpen ==
    /\ pc = "mw_open"
    /\ IF path = "-"
       THEN /\ size' = IF size_arg <= 0 THEN MAX_SIZE ELSE size_arg
            /\ UNCHANGED <<fd_pos, fd_closed>>
       ELSE /\ size' = IF size_arg <= 0 THEN Len(payload) ELSE size_arg
            /\ fd_pos' = 0
            /\ fd_closed' = FALSE
    /\ addr' = start_addr
    /\ bytes_read' = 0
    /\ pc' = "mw_loop"
    /\ UNCHANGED <<args, attempt, exc, serial, gp, read_bytes, val, ret, wc>>

\* fd.read takes a whole word whatever length is asked for
FdReadWord(n) == SubSeq(payload, fd_pos + 1, Min(fd_pos + WORD, Len(payload)))

\* at most two bytes are read at a time
FdReadHalf(n) == SubSeq(payload, fd_pos + 1, Min(fd_pos + Min(n, 2), Len(payload)))

\* what fd.read(n) returns at the current position
FdRead(n) == SubSeq(payload, fd_pos + 1, Min(fd_pos + n, Len(payload)))

\* one pass of while bytes_read < size, up to the call of writecommand
MemwriteLoop ==
    /\ pc = "mw_loop"
    /\ IF bytes_read < size
       THEN IF fd_closed
            THEN /\ Raise("ValueError")
                 /\ UNCHANGED <<size, bytes_read, read_bytes, val, fd_pos, command, wc_kind>>
            ELSE LET n == IF size - bytes_read > WORD THEN WORD ELSE size - bytes_read
                     chunk == FdRead(n)
                 IN  /\ read_bytes' = chunk
                     /\ fd_pos' = fd_pos + Len(chunk)
                     /\ IF Len(chunk) = 0
                        THEN /\ size' = IF path = "-" THEN bytes_read ELSE size
                             /\ pc' = "mw_fin"
                             /\ UNCHANGED <<attempt, exc, bytes_read, val, command, wc_kind>>
                        ELSE /\ bytes_read' = bytes_read + Len(chunk)
                             /\ size' = size
                             /\ IF path = "-"
                                THEN /\ Raise("TypeError")
                                     /\ UNCHANGED <<val, command, wc_kind>>
                                ELSE /\ val' = EncodeChunk(chunk)
                                     /\ command' = MwCommand(addr, val')
                                     /\ wc_kind' = "mw"
                                     /\ IF prompt_bound
                                        THEN pc' = "wc_write" /\ UNCHANGED <<attempt, exc>>
                                        ELSE Raise("UnboundLocalError")
       ELSE /\ pc' = "mw_fin"
            /\ UNCHANGED <<attempt, exc, size, bytes_read, read_bytes, val, fd_pos, command, wc_kind>>
    /\ UNCHANGED <<args, serial, gp, addr, fd_closed, ret, wc_echo, wc_reads, wc_result>>

\* bootm is given the address reached by the loop
BootTargetAddr == addr

\* the address bootm is given
BootTarget == start_addr

\* after the loop: fd.close(), the completion check, the bootm command
MemwriteFinish ==
    /\ pc = "mw_fin"
    /\ fd_closed' = TRUE
    /\ IF bytes_read # size
       THEN /\ ret' = FALSE
            /\ pc' = "mw_ret"
            /\ UNCHANGED <<attempt, exc, command, wc_kind>>
       ELSE /\ command' = BootmCommand(BootTarget)
            /\ wc_kind' = "bootm"
            /\ ret' = ret
            /\ IF prompt_bound
               THEN pc' = "wc_write" /\ UNCHANGED <<attempt, exc>>
               ELSE Raise("UnboundLocalError")
    /\ UNCHANGED <<args, serial, gp, size, addr, bytes_read, read_bytes, val, fd_pos,
                   wc_echo, wc_reads, wc_result>>

\* a failed word write is ignored and the loop goes on
MemwriteAfterCommandIgnore ==
    /\ pc = "wc_ret"
    /\ IF wc_kind = "mw"
       THEN /\ addr' = NextAddr(addr)
            /\ pc' = "mw_loop"
            /\ UNCHANGED <<fd_closed, ret>>
       ELSE /\ ret' = TRUE
            /\ pc' = "mw_ret"
            /\ UNCHANGED <<addr, fd_closed>>
    /\ UNCHANGED <<args, attempt, exc, serial, gp, size, bytes_read, read_bytes, val, fd_pos, wc>>

\* writecommand has returned to memwrite
MemwriteAfterCommand ==
    /\ pc = "wc_ret"
    /\ IF wc_kind = "mw"
       THEN IF ~wc_result
            THEN /\ fd_closed' = TRUE
                 /\ ret' = FALSE
                 /\ pc' = "mw_ret"
                 /\ addr' = addr
            ELSE /\ addr' = NextAddr(addr)
                 /\ pc' = "mw_loop"
                 /\ UNCHANGED <<fd_closed, ret>>
       ELSE /\ ret' = TRUE
            /\ pc' = "mw_ret"
            /\ UNCHANGED <<addr, fd_closed>>
    /\ UNCHANGED <<args, attempt, exc, serial, gp, size, bytes_read, read_bytes, val, fd_pos, wc>>

\* ----------------------------------------------------------- writecommand
\* ser.write((command + LINE_FEED).encode())
WritecommandWrite ==
    /\ pc = "wc_write"
    /\ sent' = Append(sent, command \o LINE_FEED)
    /\ \E answer \in (IF wc_kind = "mw" THEN CmdPieces(command) ELSE BootmPieces(command)) :
           wire' = wire \o answer
    /\ wc_echo' = <<>> /\ wc_reads' = 0 /\ wc_result' = FALSE
    /\ pc' = "wc_echo"
    /\ UNCHANGED <<args, attempt, exc, line, rx, gp, mw, command, wc_kind>>

\* buf = ser.read(len(command)) and the echo test
WritecommandEcho ==
    /\ pc = "wc_echo"
    /\ buf' = Take(line, Len(command))
    /\ line' = Drop(line, Len(command))
    /\ wc_echo' = buf'
    /\ wc_reads' = wc_reads + 1
    /\ IF ~EchoOk(buf', command)
       THEN wc_result' = FALSE /\ pc' = "wc_ret"
       ELSE wc_result' = wc_result /\ pc' = "wc_prompt"
    /\ UNCHANGED <<args, attempt, exc, wire, sent, rx, oldbuf, prompt, prompt_bound, mw,
                   command, wc_kind>>

\* a second read that differs from the prompt is taken as the new prompt
WritecommandPromptAdopt ==
    /\ pc = "wc_prompt"
    /\ buf' = Take(line, Len(prompt))
    /\ line' = Drop(line, Len(prompt))
    /\ wc_reads' = wc_reads + 1
    /\ prompt' = buf'
    /\ wc_result' = TRUE
    /\ pc' = "wc_ret"
    /\ UNCHANGED <<args, attempt, exc, wire, sent, rx, oldbuf, prompt_bound, mw,
                   command, wc_kind, wc_echo>>

\* buf = ser.read(len(prompt)) and the prompt test
WritecommandPrompt ==
    /\ pc = "wc_prompt"
    /\ buf' = Take(line, Len(prompt))
    /\ line' = Drop(line, Len(prompt))
    /\ wc_reads' = wc_reads + 1
    /\ wc_result' = (buf' = prompt)
    /\ pc' = "wc_ret"
    /\ UNCHANGED <<args, attempt, exc, wire, sent, rx, oldbuf, prompt, prompt_bound, mw,
                   command, wc_kind, wc_echo>>

\* ------------------------------------------------------- upload, continued
\* the supervisor gives up after a local failure
UploadAfterMemwriteGiveUp ==
    /\ pc = "mw_ret"
    /\ buf' = <<>> /\ oldbuf' = <<>> /\ rx' = <<>>
    /\ pc' = IF ret THEN "watch" ELSE "returned"
    /\ prompt' = <<>> /\ prompt_bound' = FALSE
    /\ size' = 0 /\ addr' = 0 /\ bytes_read' = 0 /\ read_bytes' = <<>> /\ val' = 0
    /\ command' = <<>> /\ wc_kind' = "none" /\ wc_echo' = <<>>
    /\ wc_reads' = 0 /\ wc_result' = FALSE
    /\ UNCHANGED <<args, attempt, exc, line, wire, sent, fd_pos, fd_closed, ret>>

\* memwrite has returned and its locals are gone: if ret, the banner loop starts
\* with an empty buf
UploadAfterMemwrite ==
    /\ pc = "mw_ret"
    /\ buf' = <<>> /\ oldbuf' = <<>> /\ rx' = <<>>
    /\ pc' = IF ret THEN "watch" ELSE "upload"
    /\ prompt' = <<>> /\ prompt_bound' = FALSE
    /\ size' = 0 /\ addr' = 0 /\ bytes_read' = 0 /\ read_bytes' = <<>> /\ val' = 0
    /\ command' = <<>> /\ wc_kind' = "none" /\ wc_echo' = <<>>
    /\ wc_reads' = 0 /\ wc_result' = FALSE
    /\ UNCHANGED <<args, attempt, exc, line, wire, sent, fd_pos, fd_closed, ret>>

\* one pass of the banner loop
UploadWatch ==
    /\ pc = "watch"
    /\ oldbuf' = buf
    /\ buf' = Take(line, READ_MAX)
    /\ line' = Drop(line, READ_MAX)
    /\ rx' = rx \o buf'
    /\ pc' = IF buf' = <<>> THEN "watch"
             ELSE IF Contains(oldbuf' \o buf', KERNEL_ERROR) THEN "upload"
             ELSE IF Contains(oldbuf' \o buf', SUCCESS_BANNER) THEN "returned"
             ELSE "watch"
    /\ UNCHANGED <<args, attempt, exc, wire, sent, prompt, prompt_bound, mw, wc>>

Next ==
    \/ Arrive
    \/ DevBoot
    \/ UploadCall
    \/ GetpromptMarker
    \/ GetpromptDrain
    \/ GetpromptLineFeed
    \/ GetpromptRead
    \/ GetpromptFlush
    \/ MemwriteOpen
    \/ MemwriteLoop
    \/ MemwriteFinish
    \/ MemwriteAfterCommand
    \/ WritecommandWrite
    \/ WritecommandEcho
    \/ WritecommandPrompt
    \/ UploadAfterMemwrite
    \/ UploadWatch

Spec == Init /\ [][Next]_vars

TypeOK ==
    /\ pc \in {"upload", "gp_wait", "gp_drain", "gp_lf", "gp_read", "gp_flush", "mw_open",
               "mw_loop", "mw_fin", "mw_ret", "wc_write", "wc_echo", "wc_prompt", "wc_ret",
               "watch", "returned", "crashed"}
    /\ attempt \in 0..MaxAttempts

\* ------------------------------------------------------------ observations
IsMw(w) == Len(w) >= Len(MW) /\ SubSeq(w, 1, Len(MW)) = MW

IsBootm(w) == Len(w) >= Len(BOOTM) /\ SubSeq(w, 1, Len(BOOTM)) = BOOTM

IsCommand(w) == IsMw(w) \/ IsBootm(w)

\* the mw lines, and all command lines, written during the current memwrite call
MwSent == SelectSeq(sent, IsMw)

Commands == SelectSeq(sent, IsCommand)

BootmSent == \E i \in DOMAIN sent : IsBootm(sent[i])

\* the bytes of the source that the call may consume
Effective == Min(size, Len(payload))

\* the payload bytes at offsets 4k .. 4k+3 (k counted from 0), as far as they exist
PayloadChunk(k) == SubSeq(payload, WORD * k + 1, Min(WORD * k + WORD, Effective))

\* the big-endian value of the reversed chunk: the chunk's first byte is the least significant
ClaimValue(c) ==
    IF Len(c) = 4 THEN c[4] * 16777216 + c[3] * 65536 + c[2] * 256 + c[1]
    ELSE IF Len(c) = 3 THEN c[3] * 65536 + c[2] * 256 + c[1]
    ELSE IF Len(c) = 2 THEN c[2] * 256 + c[1]
    ELSE IF Len(c) = 1 THEN c[1]
    ELSE 0

HexByte(b) == <<HexDigit(b \div 16), HexDigit(b % 16)>>

\* the eight hex digits of the value: zero bytes first, then the chunk's bytes last to first
ClaimHex(c) ==
    Flatten([i \in 1..WORD |-> IF WORD + 1 - i <= Len(c) THEN HexByte(c[WORD + 1 - i]) ELSE <<"0", "0">>])

\* memwrite is running or has just returned: its locals are still there
InMemwrite == pc \notin {"upload", "watch", "returned"}

InWritecommand == pc \in {"wc_write", "wc_echo", "wc_prompt", "wc_ret"}

\* ------------------------------------------------------------------ claims
\* C1: every chunk read from the payload is encoded as the big-endian value of
\* its bytes reversed; a final chunk of k < 4 bytes is reversed and zero-padded
\* at the most-significant end (a single byte 09 gives 00000009).
C1_Encoding ==
    (InWritecommand /\ wc_kind = "mw") =>
        /\ Len(read_bytes) \in 1..WORD
        /\ val = ClaimValue(read_bytes)
        /\ Len(command) = 20
        /\ SubSeq(command, 13, 20) = ClaimHex(read_bytes)
        /\ (read_bytes = <<9>> => SubSeq(command, 13, 20) = <<"0", "0", "0", "0", "0", "0", "0", "9">>)

C1_Witness ==
    /\ pc = "wc_ret" /\ wc_kind = "mw" /\ wc_result
    /\ Len(read_bytes) = 1
    /\ Len(MwSent) = 3

\* C2: with the size taken from the file (length L) and every command
\* succeeding, exactly ceil(L/4) mw commands precede bootm; none for L = 0.
C2_WordCount ==
    (path = "file" /\ size_arg = 0 /\ BootmSent) =>
        /\ Len(MwSent) = (Len(payload) + 3) \div 4
        /\ (Len(payload) = 0 => Len(MwSent) = 0)
        /\ \A i \in DOMAIN sent : IsMw(sent[i]) => i < Len(sent)

C2_Witness ==
    /\ path = "file" /\ size_arg = 0 /\ BootmSent
    /\ Len(payload) = 6
    /\ Len(MwSent) = 2

\* C3: the k-th mw command carries start_addr + 4k and the payload bytes at
\* offsets 4k..4k+3; after N successful writes the address is start_addr + 4N
\* and N words of payload have been consumed: no address or offset is
\* repeated or skipped.
C3_Lockstep ==
    /\ \A k \in 1..Len(MwSent) :
           InMemwrite =>
           MwSent[k] = MW \o Hex8(start_addr + 4 * (k - 1)) \o <<" ">>
                          \o ClaimHex(PayloadChunk(k - 1)) \o LINE_FEED
    /\ (pc = "mw_loop" =>
           /\ addr = start_addr + 4 * Len(MwSent)
           /\ bytes_read = Min(4 * Len(MwSent), Effective)
           /\ fd_pos = bytes_read)
    /\ ((InWritecommand /\ wc_kind = "mw") =>
           /\ addr = start_addr + 4 * (Len(MwSent) - (IF pc = "wc_write" THEN 0 ELSE 1))
           /\ read_bytes = PayloadChunk((addr - start_addr) \div 4))

C3_Witness ==
    /\ pc = "mw_loop"
    /\ Len(MwSent) = 2
    /\ addr = start_addr + 8
    /\ bytes_read = 8

\* C4: a successful memwrite has sent all mw commands at increasing addresses
\* and then exactly one bootm with the start address; nothing is sent after
\* bootm, and bootm is sent only after the last word write was acknowledged.
C4_CommandOrder ==
    /\ \A i \in DOMAIN sent : IsBootm(sent[i]) => i = Len(sent)
    /\ (pc = "wc_write" /\ wc_kind = "bootm" /\ Len(MwSent) > 0) => (wc_result /\ wc_reads = 2)
    /\ (pc = "mw_ret" /\ ret) =>
           /\ Len(Commands) = Len(MwSent) + 1
           /\ Commands[Len(Commands)] = BOOTM \o Hex8(start_addr) \o LINE_FEED
           /\ \A k \in 1..Len(MwSent) :
                  /\ Commands[k] = MwSent[k]
                  /\ SubSeq(Commands[k], 4, 11) = Hex8(start_addr + 4 * (k - 1))
    /\ (pc = "mw_ret" /\ ret /\ payload = PayloadA(9) /\ size_arg = 0 /\ start_addr = 4096) =>
           Commands =
             << <<"m", "w", " ", "0", "0", "0", "0", "1", "0", "0", "0", " ", "0", "4", "0", "3", "0", "2", "0", "1", "\n">>,
                <<"m", "w", " ", "0", "0", "0", "0", "1", "0", "0", "4", " ", "0", "8", "0", "7", "0", "6", "0", "5", "\n">>,
                <<"m", "w", " ", "0", "0", "0", "0", "1", "0", "0", "8", " ", "0", "0", "0", "0", "0", "0", "0", "9", "\n">>,
                <<"b", "o", "o", "t", "m", " ", "0", "0", "0", "0", "1", "0", "0", "0", "\n">> >>

C4_Witness ==
    /\ pc = "mw_ret" /\ ret
    /\ payload = PayloadA(9) /\ size_arg = 0 /\ start_addr = 4096
    /\ Len(Commands) = 4

\* the number of times the current command line has been written
TimesWritten == Cardinality({j \in DOMAIN sent : sent[j] = command \o LINE_FEED})

\* writecommand has just reported failure for a word
WordFailed == pc = "mw_ret" /\ wc_kind = "mw" /\ ~wc_result

\* C5 (as claimed): when the executor fails on word i, memwrite writes nothing
\* more, sends no bootm, reports failure, and bytes_read is 4*i.
C5_Claim ==
    WordFailed =>
        /\ ~ret
        /\ ~BootmSent
        /\ TimesWritten = 1
        /\ bytes_read = 4 * (Len(MwSent) - 1)

\* C5 (amended): when the executor fails on word i, memwrite writes nothing
\* more, sends no bootm, does not retry and reports failure; bytes_read then
\* already counts the chunk of the failed word (4*i plus its length), and the
\* address is still start_addr + 4*i.  The loop is re-entered only after a
\* successful word.
C5_AbortOnFailure ==
    /\ (pc \in {"mw_loop", "mw_fin"} /\ wc_kind = "mw") => wc_result
    /\ WordFailed =>
           /\ ~ret
           /\ ~BootmSent
           /\ fd_closed
           /\ sent[Len(sent)] = command \o LINE_FEED
           /\ TimesWritten = 1
           /\ bytes_read = 4 * (Len(MwSent) - 1) + Len(read_bytes)
           /\ bytes_read = Min(4 * Len(MwSent), Effective)
           /\ addr = start_addr + 4 * (Len(MwSent) - 1)

C5_Witness ==
    /\ WordFailed
    /\ Len(MwSent) = 2
    /\ bytes_read = 8
    /\ wc_reads = 2

\* C6: writecommand returns success exactly when the bytes read as echo equal
\* the command and the bytes then read equal the prompt; it writes the command
\* line once, and on an echo mismatch it fails without reading the prompt.
C6_Executor ==
    pc = "wc_ret" =>
        /\ wc_result <=> (wc_echo = command /\ wc_reads = 2 /\ buf = prompt)
        /\ (wc_echo # command => (wc_reads = 1 /\ ~wc_result /\ buf = wc_echo))
        /\ Len(wc_echo) <= Len(command)
        /\ (wc_reads = 2 => Len(buf) <= Len(prompt))
        /\ sent[Len(sent)] = command \o LINE_FEED
        /\ TimesWritten = 1

C6_Witness ==
    /\ pc = "wc_ret"
    /\ wc_echo = Garble(command)
    /\ wc_reads = 1
    /\ ~wc_result

\* C7 (as claimed): the prompt getprompt returns is exactly the two bytes of
\* the suffix.
C7_Claim == prompt_bound => (Len(prompt) = 2 /\ IsPrompt(prompt))

\* C7 (amended): the prompt getprompt returns is the whole chunk of the first
\* read after the line feed, which ends with one of the two suffixes: at least
\* two bytes, and more when the chunk holds more (the echoed line feed).
C7_PromptIsChunk ==
    prompt_bound =>
        /\ IsPrompt(prompt)
        /\ Len(prompt) >= 2
        /\ (pc = "mw_open" => prompt = buf)

C7_Witness ==
    /\ pc = "mw_open"
    /\ prompt_bound
    /\ prompt = DEV_HASH
    /\ buf = DEV_HASH

LineFeedsSent == Cardinality({j \in DOMAIN sent : sent[j] = LINE_FEED})

\* C8: while getprompt drains after a first response without a prompt, it
\* sends no further line feed, and it is no longer draining once a read has
\* returned a chunk ending with a prompt suffix.
C8_Claim == pc = "gp_flush" => (LineFeedsSent = 1 /\ ~IsPrompt(buf))

\* C9: after a successful upload, once the bytes read contain the success
\* banner and no kernel-image error, the supervisor has returned, however the
\* bytes were split over the reads.
C9_Claim == ~(pc = "watch" /\ Contains(rx, SUCCESS_BANNER) /\ ~Contains(rx, KERNEL_ERROR))

\* C10: after a successful upload, a kernel-image error received before the
\* success banner makes the supervisor retry: it never returns with the error
\* string among the bytes it has read.
C10_Claim == pc = "returned" => ~Contains(rx, KERNEL_ERROR)

\* C11: upload returns only after a memwrite that reported success and a
\* success banner read afterwards; after a local failure it reads nothing and
\* goes back to the top of its loop, from where memwrite is called again: the
\* only ways out of the loop are the return on the banner and an exception.
C11_Supervisor ==
    /\ [](pc = "returned" => (ret /\ Contains(rx, SUCCESS_BANNER)))
    /\ [](pc = "watch" => ret)
    /\ []((pc = "upload" /\ ~ret) => rx = <<>>)
    /\ [][(pc = "mw_ret" /\ ~ret /\ pc' # pc) => (pc' = "upload" /\ line' = line)]_vars
    /\ [][(pc = "upload" /\ pc' # pc) => (attempt' = attempt + 1 /\ pc' \in {"gp_wait", "mw_open"})]_vars

\* the second call of memwrite, made after the first reported failure
C11_Witness ==
    /\ attempt = 2
    /\ pc = "gp_wait"
    /\ ~ret

\* C12: every attempt, for a file and for a stream alike, starts the transfer
\* from the beginning: at the first pass of the loop the source is open at
\* offset 0 and the address is start_addr, and the first mw line of the attempt
\* carries start_addr and payload bytes 0..3.
C12_Claim ==
    /\ (pc = "mw_loop" /\ bytes_read = 0) =>
           (addr = start_addr /\ fd_pos = 0 /\ ~fd_closed)
    /\ (InMemwrite /\ Len(MwSent) > 0) =>
           MwSent[1] = MW \o Hex8(start_addr) \o <<" ">> \o ClaimHex(PayloadChunk(0)) \o LINE_FEED
    /\ exc # "ValueError"

\* the part of C12 that is about files: a later attempt starts at offset 0
C12_FileRestart ==
    path = "file" =>
        /\ (pc = "mw_loop" /\ bytes_read = 0) =>
               (addr = start_addr /\ fd_pos = 0 /\ ~fd_closed)
        /\ (InMemwrite /\ Len(MwSent) > 0) =>
               MwSent[1] = MW \o Hex8(start_addr) \o <<" ">> \o ClaimHex(PayloadChunk(0)) \o LINE_FEED

\* C13: with declared size 0 and a stream that yields K bytes, a memwrite call
\* whose word writes all succeed ends with size revised to K, bootm sent and
\* the result True; it never ends otherwise, and never with size 2^30.
C13_Claim ==
    (path = "-" /\ size_arg = 0 /\ ~shell /\ attempt = 1
        /\ pc \in {"mw_ret", "crashed"} /\ ~WordFailed) =>
        (pc = "mw_ret" /\ ret /\ size = Len(payload) /\ BootmSent)

\* the loop of memwrite has been left at its end (not by a failed word):
\* memwrite has returned, or has raised at the bootm call after fd.close()
LoopExited ==
    \/ pc = "mw_ret" /\ ~WordFailed
    \/ pc = "crashed" /\ exc = "UnboundLocalError" /\ fd_closed

\* C14: a source with a declared size that runs out before that size has been
\* consumed makes memwrite report failure without a bootm; and after the loop
\* bootm is sent exactly when bytes_read equals the (possibly revised) size.
C14_Claim ==
    /\ (size_arg > 0 /\ LoopExited /\ bytes_read < size_arg) => (~ret /\ ~BootmSent)
    /\ LoopExited => (BootmSent <=> bytes_read = size)

\* the part of C14 that holds: a file after synchronization
C14_ShortFile ==
    (path = "file" /\ ~shell) =>
        /\ (LoopExited /\ bytes_read < size) => (~ret /\ ~BootmSent)
        /\ LoopExited => (BootmSent <=> bytes_read = size)

\* C15: whenever the loop ends with every word written and bytes_read = size,
\* memwrite sends bootm and returns True, whatever writecommand returns for
\* the bootm line.
C15_Claim ==
    (LoopExited /\ bytes_read = size) => (pc = "mw_ret" /\ BootmSent /\ ret)

\* the part of C15 that holds: once bootm has been written, memwrite returns
\* True also when the bootm echo or prompt check failed
C15_NotGated ==
    (pc = "mw_ret" /\ BootmSent) => ret

\* C16: with the shell flag memwrite writes neither the interrupt token nor a
\* line feed of its own, and still carries out the upload: every command is
\* handed to writecommand with a bound prompt, so memwrite does not raise.
C16_Claim ==
    shell =>
        /\ \A i \in DOMAIN sent : sent[i] # INTERRUPT /\ sent[i] # LINE_FEED
        /\ InWritecommand => prompt_bound
        /\ exc # "UnboundLocalError"

\* C17: in a memwrite call that synchronizes, the prompt returned by getprompt
\* is never assigned again; no command is written before it is bound; the
\* second read of every command is compared with that value; and a word whose
\* prompt read differs ends the call with failure, the prompt unchanged.
C17_PromptImmutable ==
    /\ [][(prompt_bound /\ pc # "mw_ret") => (prompt_bound' /\ prompt' = prompt)]_vars
    /\ []((InMemwrite /\ Len(Commands) > 0) => prompt_bound)
    /\ []((pc = "wc_ret" /\ wc_reads = 2) => (wc_result <=> buf = prompt))
    /\ [][(pc = "wc_ret" /\ wc_kind = "mw" /\ ~wc_result /\ pc' # pc) =>
              (pc' = "mw_ret" /\ ~ret' /\ prompt' = prompt /\ sent' = sent)]_vars

\* a word was echoed correctly, then the prompt read gave other bytes of the
\* same length, and the call has ended with failure
C17_Witness ==
    /\ pc = "mw_ret"
    /\ WordFailed
    /\ wc_reads = 2
    /\ Len(buf) = Len(prompt)
    /\ buf # prompt
    /\ ~ret

\* C18: getprompt writes nothing before the marker has been seen; on detection
\* it writes the interrupt token once; it then reads until a read returns
\* empty, and only after that empty read does it write the first line feed.
C18_Order ==
    /\ [](pc = "gp_wait" => sent = <<>>)
    /\ [](pc \in {"gp_drain", "gp_lf"} => sent = <<INTERRUPT>>)
    /\ [](pc \in {"gp_read", "gp_flush"} => sent = <<INTERRUPT, LINE_FEED>>)
    /\ [][(pc = "gp_wait" /\ pc' # pc) =>
              (pc' = "gp_drain" /\ Contains(oldbuf' \o buf', MARKER))]_vars
    /\ [][(pc = "gp_drain" /\ line # <<>>) => (pc' = "gp_drain" /\ sent' = sent)]_vars
    /\ [][(pc = "gp_drain" /\ pc' # pc) => (line = <<>> /\ pc' = "gp_lf")]_vars

\* the marker has been seen, the token written, the drain ended and the first
\* line feed written
C18_Witness ==
    /\ pc = "gp_read"
    /\ sent = <<INTERRUPT, LINE_FEED>>
    /\ Contains(oldbuf \o buf, MARKER)

\* C19: in the marker wait, once the whole marker has been received since the
\* device was powered on, however it was divided between the reads, the
\* interrupt token is sent: getprompt is never still waiting with the marker
\* among the bytes it has read.
C19_Claim == pc = "gp_wait" => ~Contains(rx, MARKER)

\* C20: in memwrite's loop bytes_read never exceeds size; with a declared size
\* S smaller than the file, a completed call has written exactly ceil(S/4) mw
\* lines and consumed exactly the first S bytes; and every pass of the loop
\* either consumes at least one byte or leaves the loop.
C20_Bounded ==
    /\ [](pc \in {"mw_loop", "mw_fin", "mw_ret", "wc_write", "wc_echo", "wc_prompt", "wc_ret"} =>
              (bytes_read <= size /\ bytes_read = fd_pos))
    /\ []((path = "file" /\ size_arg > 0 /\ size_arg < Len(payload) /\ InMemwrite /\ BootmSent) =>
              (/\ Len(MwSent) = (size_arg + WORD - 1) \div WORD
               /\ fd_pos = size_arg
               /\ \A k \in 1..Len(MwSent) :
                      MwSent[k] = MwCommand(start_addr + WORD * (k - 1),
                                            ClaimValue(SubSeq(payload, WORD * (k - 1) + 1,
                                                              Min(WORD * k, size_arg)))) \o LINE_FEED))
    /\ [][(pc = "mw_loop" /\ pc' # pc) =>
              (bytes_read' > bytes_read \/ pc' \in {"mw_fin", "crashed"})]_vars

\* a declared size of 6 with the longest file: a full word, a word of two
\* bytes, then bootm
C20_Witness ==
    /\ path = "file"
    /\ size_arg = 6
    /\ Len(payload) = MaxLen
    /\ pc = "mw_ret"
    /\ ret
    /\ Len(MwSent) = 2
    /\ BootmSent
    /\ fd_pos = 6
====
